---- MODULE Spec2Model ----
(***************************************************************************)
(* Limit-equilibrium slope stability core of src/Slope-stability.py:       *)
(* get_slope_surface_y, get_soil_at_point, slice_geometry, swedish_method, *)
(* bishop_simplified and search_critical_circle.                           *)
(*                                                                         *)
(* Numbers.  The program computes in binary floating point.  The model     *)
(* computes in decimal fixed point: every length (m), elevation (m), unit  *)
(* weight (kN/m3), stress (kPa), force (kN), ratio and factor of safety is *)
(* an integer count of thousandths (SCALE = 1000), products and quotients  *)
(* are rounded toward zero, and a square root is the integer square root   *)
(* of the exact difference of squares.  The base angle alpha of a slice is *)
(* kept as the pair (sin alpha, cos alpha), which arctan2(dx, dy) on a     *)
(* point of the circle determines as (dx / R, dy / R).                     *)
(***************************************************************************)
EXTENDS Integers, Sequences, FiniteSets, TLC

VARIABLES
    slope_geometry,   \* the slope_geometry dict
    soil_layers,      \* the list of SoilLayer
    gwl,              \* groundwater level
    method,           \* the method selector of the search: "Swedish" or "Bishop"
    seismic_coef,     \* horizontal seismic coefficient kh
    n_circles,        \* search density of search_critical_circle
    pc,               \* where search_critical_circle is: "grid", "done"
    cand,             \* number of grid candidates the nested loops have visited
    min_fs,           \* min_fs of search_critical_circle
    best_result,      \* best_result of search_critical_circle
    evaluated,        \* history: the candidates a solver was run on, in order
    last,             \* history: what the loop body did with the last candidate
    returned,         \* what search_critical_circle returned
    solver,           \* the arguments of a direct call of a solver
    bishop,           \* the locals of bishop_simplified while it iterates
    result,           \* the AnalysisResults the solver call returned
    call              \* the last call of a pure function and what it returned

vars == <<slope_geometry, soil_layers, gwl, method, seismic_coef, n_circles, pc, cand,
          min_fs, best_result, evaluated, last, returned, solver, bishop, result, call>>

search_vars == <<n_circles, cand, min_fs, best_result, evaluated, last, returned>>

solver_vars == <<solver, bishop, result>>

input_vars == <<slope_geometry, soil_layers, gwl, method, seismic_coef>>

\* ------------------------------------------------------------------------
\* Fixed-point arithmetic
\* ------------------------------------------------------------------------
SCALE == 1000

Abs(a) == IF a < 0 THEN -a ELSE a

Max(a, b) == IF a >= b THEN a ELSE b

Min(a, b) == IF a <= b THEN a ELSE b

\* the element of a one-element set; a value bound as the element of {e} is
\* computed once, before the expression that uses it
The(S) == CHOOSE v \in S : TRUE

\* integer quotient rounded toward zero, b /= 0
TDiv(a, b) == IF (a >= 0) = (b > 0) THEN Abs(a) \div Abs(b) ELSE -(Abs(a) \div Abs(b))

\* fixed-point product a * b: (a * b) / SCALE rounded toward zero, computed
\* by parts so that no intermediate value leaves the range of the result
Mul(a, b) ==
    LET m == (Abs(a) \div SCALE) * Abs(b) + ((Abs(a) % SCALE) * Abs(b)) \div SCALE
    IN  IF (a >= 0) = (b >= 0) THEN m ELSE -m

\* fixed-point quotient a / b, b /= 0: (a * SCALE) / b rounded toward zero,
\* computed by parts
Quot(a, b) ==
    LET q == (Abs(a) \div Abs(b)) * SCALE + ((Abs(a) % Abs(b)) * SCALE) \div Abs(b)
    IN  IF (a >= 0) = (b > 0) THEN q ELSE -q

\* largest r in lo..hi with r * r <= n, given lo * lo <= n < (hi + 1) * (hi + 1)
RECURSIVE isqrt_between(_, _, _)
isqrt_between(n, lo, hi) ==
    IF lo >= hi THEN lo
    ELSE The({ IF mid * mid <= n THEN isqrt_between(n, mid, hi)
               ELSE isqrt_between(n, lo, mid - 1) :
               mid \in {(lo + hi + 1) \div 2} })

\* np.sqrt on an exact square sum or difference n >= 0 (in SCALE * SCALE
\* units): the result is in SCALE units
Sqrt(n) == isqrt_between(n, 0, 46340)

\* float('inf'): above every factor of safety the model computes
Infinity == 2147483647

\* the not-a-number a float division 0/0 produces; it compares false with
\* everything
NaN == -2147483647

\* a < b on floats
Lt(a, b) == a # NaN /\ b # NaN /\ a < b

\* np.tan(np.radians(phi)) for the friction angles (degrees) the model draws
TanDeg == [phi \in {0, 10, 20, 30, 45, 60} |->
              CASE phi = 0 -> 0 [] phi = 10 -> 176 [] phi = 20 -> 364
                [] phi = 30 -> 577 [] phi = 45 -> 1000 [] phi = 60 -> 1732]

\* ------------------------------------------------------------------------
\* Geometry and soil query
\* ------------------------------------------------------------------------
\* no SoilLayer (None)
NoLayer == 0

\* variant: the slope branch multiplies by slope_ratio (V:H read as H:V)
get_slope_surface_y_times(x, g) ==
    LET H == g.height
        slope_ratio == g.slope_ratio
        toe_x == g.toe_x
        toe_elevation == g.toe_elevation
        slope_width == Mul(H, slope_ratio)
    IN  IF x < toe_x THEN toe_elevation
        ELSE IF x < toe_x + slope_width THEN toe_elevation + Mul(x - toe_x, slope_ratio)
        ELSE toe_elevation + H

get_slope_surface_y(x, g) ==
    LET H == g.height
        slope_ratio == g.slope_ratio
        crest_width == g.crest_width
        toe_x == g.toe_x
        toe_elevation == g.toe_elevation
        slope_width == Mul(H, slope_ratio)
    IN  IF x < toe_x THEN toe_elevation
        ELSE IF x < toe_x + slope_width THEN toe_elevation + Quot(x - toe_x, slope_ratio)
        ELSE IF x < toe_x + slope_width + crest_width THEN toe_elevation + H
        ELSE toe_elevation + H

\* variant: a point on a layer boundary falls to the lower layer
layer_reached_strict(current_depth, cumulative_thickness) ==
    current_depth < cumulative_thickness

\* the test "current_depth <= cumulative_thickness" that ends the walk
layer_reached(current_depth, cumulative_thickness) ==
    current_depth <= cumulative_thickness

\* the loop "for layer in soil_layers" of get_soil_at_point from layer i on,
\* cumulative_thickness being the thickness accumulated over layers 1..i-1;
\* the value is the index of the layer returned, NoLayer for None
RECURSIVE soil_walk(_, _, _, _)
soil_walk(layers, i, cumulative_thickness, current_depth) ==
    IF i > Len(layers)
    THEN (IF Len(layers) > 0 THEN Len(layers) ELSE NoLayer)
    ELSE IF layer_reached(current_depth, cumulative_thickness + layers[i].thickness)
         THEN i
         ELSE soil_walk(layers, i + 1, cumulative_thickness + layers[i].thickness, current_depth)

\* variant: a point at the groundwater level counts as submerged
get_soil_at_point_wet(x, y, g, layers, w) ==
    LET slope_surface_y == get_slope_surface_y(x, g)
        soil == soil_walk(layers, 1, 0, slope_surface_y - y)
    IN  IF y > slope_surface_y THEN [soil |-> NoLayer, is_submerged |-> FALSE]
        ELSE IF soil = NoLayer THEN [soil |-> NoLayer, is_submerged |-> FALSE]
        ELSE [soil |-> soil, is_submerged |-> y <= w]

\* (soil, is_submerged); soil is the position of the layer in soil_layers
get_soil_at_point(x, y, g, layers, w) ==
    LET slope_surface_y == get_slope_surface_y(x, g)
        soil == soil_walk(layers, 1, 0, slope_surface_y - y)
    IN  IF y > slope_surface_y THEN [soil |-> NoLayer, is_submerged |-> FALSE]
        ELSE IF soil = NoLayer THEN [soil |-> NoLayer, is_submerged |-> FALSE]
        ELSE [soil |-> soil, is_submerged |-> y < w]

\* ------------------------------------------------------------------------
\* Slip circle and slice discretizer
\* ------------------------------------------------------------------------
SlipCircle(x_center, y_center, radius) ==
    [x_center |-> x_center, y_center |-> y_center, radius |-> radius]

\* np.arctan2(dx, dy) as the pair (sin, cos) of the angle; arctan2(0, 0) = 0
arctan2(dx, dy) ==
    The({ IF hyp = 0 THEN [sin |-> 0, cos |-> SCALE]
          ELSE [sin |-> Quot(dx, hyp), cos |-> Quot(dy, hyp)] :
          hyp \in {Sqrt(dx * dx + dy * dy)} })

\* variant: a column whose base lies level with the surface is kept
slice_column_level(i, circle, g, x_left, slice_width) ==
    LET xc == circle.x_center
        yc == circle.y_center
        R == circle.radius
        x_l == x_left + i * slice_width
        x_r == x_left + (i + 1) * slice_width
    IN  The({ The({
            IF y_base_sq < 0 THEN [valid |-> FALSE]
            ELSE The({
                IF y_base > y_surface THEN [valid |-> FALSE]
                ELSE [valid |-> TRUE,
                      slice |-> [index |-> i, x_mid |-> x_mid, x_left |-> x_l,
                                 x_right |-> x_r, y_surface |-> y_surface,
                                 y_base |-> y_base, height |-> y_surface - y_base,
                                 width |-> slice_width,
                                 alpha |-> arctan2(x_mid - xc, yc - y_base)]] :
                y_base \in {yc - Sqrt(y_base_sq)} }) :
            y_surface \in {get_slope_surface_y(x_mid, g)},
            y_base_sq \in {R * R - (x_mid - xc) * (x_mid - xc)} }) :
          x_mid \in {x_left + TDiv((2 * i + 1) * slice_width, 2)} })

\* the circle centred x_offset off the toe and 0.3 H + y_offset above the
\* crest, with the mean of its distances to the toe and to the crest edge,
\* scaled by r_factor, as radius
generate_slip_circle(g, x_offset, y_offset, r_factor) ==
    LET H == g.height
        toe_x == g.toe_x
        toe_elevation == g.toe_elevation
        slope_width == Mul(H, g.slope_ratio)
        crest_elevation == toe_elevation + H
        x_center == toe_x + x_offset
        y_center == crest_elevation + Mul(H, 300) + y_offset
        dist_to_toe == Sqrt((x_center - toe_x) * (x_center - toe_x)
                            + (y_center - toe_elevation) * (y_center - toe_elevation))
        dist_to_crest == Sqrt((x_center - (toe_x + slope_width))
                                  * (x_center - (toe_x + slope_width))
                              + (y_center - crest_elevation) * (y_center - crest_elevation))
        base_radius == TDiv(dist_to_toe + dist_to_crest, 2)
        radius == Mul(base_radius, r_factor)
    IN  SlipCircle(x_center, y_center, radius)

\* one pass of the loop "for i in range(n_slices)" of slice_geometry: the
\* slice record of column i, or valid = FALSE where the code continues
slice_column(i, circle, g, x_left, slice_width) ==
    LET xc == circle.x_center
        yc == circle.y_center
        R == circle.radius
        x_l == x_left + i * slice_width
        x_r == x_left + (i + 1) * slice_width
    IN  The({ The({
            IF y_base_sq < 0 THEN [valid |-> FALSE]
            ELSE The({
                IF y_base >= y_surface THEN [valid |-> FALSE]
                ELSE IF y_surface - y_base <= 0 THEN [valid |-> FALSE]
                ELSE [valid |-> TRUE,
                      slice |-> [index |-> i, x_mid |-> x_mid, x_left |-> x_l,
                                 x_right |-> x_r, y_surface |-> y_surface,
                                 y_base |-> y_base, height |-> y_surface - y_base,
                                 width |-> slice_width,
                                 alpha |-> arctan2(x_mid - xc, yc - y_base)]] :
                y_base \in {yc - Sqrt(y_base_sq)} }) :
            y_surface \in {get_slope_surface_y(x_mid, g)},
            y_base_sq \in {R * R - (x_mid - xc) * (x_mid - xc)} }) :
          x_mid \in {x_left + TDiv((2 * i + 1) * slice_width, 2)} })

\* the loop "for i in range(n_slices)" of slice_geometry over the columns
\* lo..hi: the slices appended, in column order (the range is split in halves,
\* which keeps the evaluation shallow; the columns are visited in order)
RECURSIVE slice_loop(_, _, _, _, _, _)
slice_loop(lo, hi, circle, g, x_left, slice_width) ==
    IF lo > hi THEN << >>
    ELSE IF lo = hi
    THEN The({ IF col.valid THEN <<col.slice>> ELSE << >> :
               col \in {slice_column(lo, circle, g, x_left, slice_width)} })
    ELSE slice_loop(lo, (lo + hi) \div 2, circle, g, x_left, slice_width)
             \o slice_loop((lo + hi) \div 2 + 1, hi, circle, g, x_left, slice_width)

\* variant: the chord is cut into one column more than asked for
slice_geometry_narrow(circle, g, n_slices) ==
    LET H == g.height
        toe_x == g.toe_x
        slope_ratio == g.slope_ratio
        toe_elevation == g.toe_elevation
        slope_width == Mul(H, slope_ratio)
        xc == circle.x_center
        yc == circle.y_center
        R == circle.radius
        y_diff == yc - toe_elevation
    IN  IF R * R < y_diff * y_diff THEN << >>
        ELSE The({ The({ The({
                 slice_loop(0, n_slices - 1, circle, g, x_left, slice_width) :
                 slice_width \in {TDiv(x_right - x_left, n_slices + 1)} }) :
               x_left \in {Max(xc - half_chord, toe_x - 5000)},
               x_right \in {Min(xc + half_chord,
                                toe_x + slope_width + g.crest_width + 5000)} }) :
             half_chord \in {Sqrt(R * R - y_diff * y_diff)} })

\* the list of slice records, in column order (alpha_deg, the same angle in
\* degrees, is carried by alpha)
slice_geometry(circle, g, n_slices) ==
    LET H == g.height
        toe_x == g.toe_x
        slope_ratio == g.slope_ratio
        toe_elevation == g.toe_elevation
        slope_width == Mul(H, slope_ratio)
        xc == circle.x_center
        yc == circle.y_center
        R == circle.radius
        y_diff == yc - toe_elevation
    IN  IF R * R < y_diff * y_diff THEN << >>
        ELSE The({ The({ The({
                 slice_loop(0, n_slices - 1, circle, g, x_left, slice_width) :
                 slice_width \in {TDiv(x_right - x_left, n_slices)} }) :
               x_left \in {Max(xc - half_chord, toe_x - 5000)},
               x_right \in {Min(xc + half_chord,
                                toe_x + slope_width + g.crest_width + 5000)} }) :
             half_chord \in {Sqrt(R * R - y_diff * y_diff)} })

\* ------------------------------------------------------------------------
\* Equilibrium solvers
\* ------------------------------------------------------------------------
\* unit weight of water, kN/m3
GammaWater == 9810

\* the sentinel factor of safety of a surface with no net driving force
SentinelFS == 999000

\* the smallest absolute driving sum that is divided by: 0.001
DrivingEps == 1

AnalysisResults(method_name, fs, slices_data, critical_circle, converged, iterations) ==
    [method |-> method_name, fs |-> fs, slices_data |-> slices_data,
     critical_circle |-> critical_circle, converged |-> converged,
     iterations |-> iterations]

\* the method label; the seismic suffix stands for " + Seismic (kh=...)"
method_label(name, kh) ==
    IF kh > 0 THEN <<name, "Seismic", kh>> ELSE <<name>>

\* the body of the loop "for s in slices" of swedish_method: the slice
\* data record, or found = FALSE where the code continues
swedish_slice(s, layers, g, w, circle, kh) ==
    LET R == circle.radius
        y_center == circle.y_center
        x_mid == s.x_mid
        y_mid == TDiv(s.y_surface + s.y_base, 2)
        arm == y_center - y_mid
    IN  The({
          IF at.soil = NoLayer THEN [found |-> FALSE]
          ELSE The({ The({ The({
                 [found |-> TRUE,
                  data |-> [index |-> s.index, x_mid |-> x_mid, width |-> s.width,
                            height |-> s.height, W |-> W, l |-> l, u |-> u, N |-> N,
                            T |-> T, c |-> soil.cohesion, phi |-> soil.phi,
                            resisting |-> Mul(soil.cohesion, l)
                                              + Mul(Max(0, N), TanDeg[soil.phi]),
                            driving |-> T, soil_name |-> soil.name]] :
                 N \in {Mul(W, s.alpha.cos) - Mul(u, l)},
                 T \in {IF kh > 0
                        THEN Mul(W, s.alpha.sin) + Quot(Mul(Mul(kh, W), arm), R)
                        ELSE Mul(W, s.alpha.sin)} }) :
               W \in {Mul(Mul(IF at.is_submerged THEN soil.gamma_sat ELSE soil.gamma,
                              s.height), s.width)},
               l \in {Quot(s.width, s.alpha.cos)},
               u \in {IF s.y_base < w THEN Mul(GammaWater, w - s.y_base) ELSE 0} }) :
             soil \in {layers[at.soil]} }) :
          at \in {get_soil_at_point(x_mid, y_mid, g, layers, w)} })

\* what one slice adds to sum_driving in swedish_method
swedish_driving_term(driving) == IF driving > 0 THEN Abs(driving) ELSE -driving

\* the body of the loop "for s in slices" of swedish_method on the sums and
\* the data accumulated so far
swedish_step(sums, s, layers, g, w, circle, kh) ==
    The({ IF ~e.found THEN sums
          ELSE [sum_resisting |-> sums.sum_resisting + e.data.resisting,
                sum_driving |-> sums.sum_driving + swedish_driving_term(e.data.driving),
                slices_data |-> Append(sums.slices_data, e.data)] :
          e \in {swedish_slice(s, layers, g, w, circle, kh)} })

\* the loop "for s in slices" of swedish_method over the slices lo..hi, in
\* order, from the sums accumulated so far
RECURSIVE swedish_loop(_, _, _, _, _, _, _, _, _)
swedish_loop(lo, hi, sums, slices, layers, g, w, circle, kh) ==
    IF lo > hi THEN sums
    ELSE IF lo = hi THEN swedish_step(sums, slices[lo], layers, g, w, circle, kh)
    ELSE The({ swedish_loop((lo + hi) \div 2 + 1, hi, half, slices, layers, g, w, circle, kh) :
               half \in {swedish_loop(lo, (lo + hi) \div 2, sums, slices, layers, g, w,
                                      circle, kh)} })

\* the factor of safety from the two sums
swedish_fs(sum_resisting, sum_driving) ==
    IF Abs(sum_driving) < DrivingEps THEN SentinelFS
    ELSE Quot(sum_resisting, Abs(sum_driving))

swedish_method(slices, layers, g, w, circle, kh) ==
    The({ AnalysisResults(method_label("Swedish (Ordinary Method)", kh),
                          swedish_fs(sums.sum_resisting, sums.sum_driving),
                          sums.slices_data, circle, TRUE, 1) :
          sums \in {swedish_loop(1, Len(slices),
                                  [sum_resisting |-> 0, sum_driving |-> 0,
                                   slices_data |-> << >>],
                                  slices, layers, g, w, circle, kh)} })

\* the initial guess of bishop_simplified
BishopInitialFS == 1500

\* the floor of |m_alpha|: 0.001
MAlphaFloor == 1

\* m_alpha of one slice: cos(alpha) + sin(alpha) * tan(phi) / fs, a float
\* division (x / 0 is an infinity, 0 / 0 and anything with NaN is NaN),
\* then floored
bishop_m_alpha(alpha, tan_phi, fs) ==
    The({ IF m_alpha \notin {NaN, Infinity, -Infinity} /\ Abs(m_alpha) < MAlphaFloor
          THEN MAlphaFloor
          ELSE m_alpha :
          m_alpha \in {IF fs = NaN THEN NaN
                       ELSE IF fs = 0
                            THEN (IF Mul(alpha.sin, tan_phi) = 0 THEN NaN
                                  ELSE IF Mul(alpha.sin, tan_phi) > 0 THEN Infinity
                                  ELSE -Infinity)
                       ELSE alpha.cos + Quot(Mul(alpha.sin, tan_phi), fs)} })

\* the body of the loop "for s in slices" of bishop_simplified under the
\* current fs
bishop_slice(s, layers, g, w, circle, kh, fs) ==
    LET R == circle.radius
        y_center == circle.y_center
        x_mid == s.x_mid
        y_mid == TDiv(s.y_surface + s.y_base, 2)
        b == s.width
        arm == y_center - y_mid
    IN  The({
          IF at.soil = NoLayer THEN [found |-> FALSE]
          ELSE The({ The({ The({
                 [found |-> TRUE,
                  data |-> [index |-> s.index, x_mid |-> x_mid, width |-> b,
                            height |-> s.height, W |-> W, u |-> u, m_alpha |-> m_alpha,
                            c |-> soil.cohesion, phi |-> soil.phi,
                            numerator |-> numerator, driving |-> driving,
                            soil_name |-> soil.name]] :
                 numerator \in {IF m_alpha = NaN THEN NaN
                                ELSE IF Abs(m_alpha) = Infinity THEN 0
                                ELSE Quot(Mul(soil.cohesion, b)
                                              + Mul(W - Mul(u, b), TanDeg[soil.phi]),
                                          m_alpha)},
                 driving \in {IF kh > 0
                              THEN Mul(W, s.alpha.sin) + Quot(Mul(Mul(kh, W), arm), R)
                              ELSE Mul(W, s.alpha.sin)} }) :
               W \in {Mul(Mul(IF at.is_submerged THEN soil.gamma_sat ELSE soil.gamma,
                              s.height), s.width)},
               u \in {IF s.y_base < w THEN Mul(GammaWater, w - s.y_base) ELSE 0},
               m_alpha \in {bishop_m_alpha(s.alpha, TanDeg[soil.phi], fs)} }) :
             soil \in {layers[at.soil]} }) :
          at \in {get_soil_at_point(x_mid, y_mid, g, layers, w)} })

\* variant: the driving sum is clamped instead of replaced by the sentinel
bishop_fs_new_clamped(sum_numerator, sum_driving) ==
    IF sum_numerator = NaN THEN NaN
    ELSE Quot(sum_numerator, Max(Abs(sum_driving), DrivingEps))

\* the new factor of safety of one pass from its two sums
bishop_fs_new(sum_numerator, sum_driving) ==
    IF Abs(sum_driving) < DrivingEps THEN SentinelFS
    ELSE IF sum_numerator = NaN THEN NaN
    ELSE Quot(sum_numerator, Abs(sum_driving))

\* a float sum a + b: not a number as soon as one term is
FloatAdd(a, b) == IF a = NaN \/ b = NaN THEN NaN ELSE a + b

\* the body of the loop "for s in slices" of bishop_simplified under the
\* current fs, on the sums and the data accumulated so far
bishop_slices_step(sums, s, layers, g, w, circle, kh, fs) ==
    The({ IF ~e.found THEN sums
          ELSE [sum_numerator |-> FloatAdd(sums.sum_numerator, e.data.numerator),
                sum_driving |-> sums.sum_driving + e.data.driving,
                temp_slices_data |-> Append(sums.temp_slices_data, e.data)] :
          e \in {bishop_slice(s, layers, g, w, circle, kh, fs)} })

\* the loop "for s in slices" of bishop_simplified over the slices lo..hi, in
\* order, from the sums accumulated so far
RECURSIVE bishop_slices_loop(_, _, _, _, _, _, _, _, _, _)
bishop_slices_loop(lo, hi, sums, slices, layers, g, w, circle, kh, fs) ==
    IF lo > hi THEN sums
    ELSE IF lo = hi THEN bishop_slices_step(sums, slices[lo], layers, g, w, circle, kh, fs)
    ELSE The({ bishop_slices_loop((lo + hi) \div 2 + 1, hi, half, slices, layers, g, w, circle, kh, fs) :
               half \in {bishop_slices_loop(lo, (lo + hi) \div 2, sums, slices, layers, g,
                                            w, circle, kh, fs)} })

\* one pass of the loop "for iteration in range(max_iter)" up to the
\* convergence check
bishop_pass(slices, layers, g, w, circle, kh, fs) ==
    The({ [fs_new |-> bishop_fs_new(sums.sum_numerator, sums.sum_driving),
           sum_numerator |-> sums.sum_numerator, sum_driving |-> sums.sum_driving,
           temp_slices_data |-> sums.temp_slices_data] :
          sums \in {bishop_slices_loop(1, Len(slices),
                                        [sum_numerator |-> 0, sum_driving |-> 0,
                                         temp_slices_data |-> << >>],
                                        slices, layers, g, w, circle, kh, fs)} })

\* variant: the convergence check without abs
bishop_converged_signed(fs_new, fs, tol) ==
    fs_new # NaN /\ fs # NaN /\ fs_new - fs < tol

\* the convergence check abs(fs_new - fs) < tol on floats
bishop_converged(fs_new, fs, tol) ==
    fs_new # NaN /\ fs # NaN /\ Abs(fs_new - fs) < tol

\* variant: the initial guess is the sentinel
bishop_enter_sentinel ==
    [returned |-> FALSE, fs |-> SentinelFS, fs_new |-> NaN, fs_old |-> NaN,
     iteration |-> 0, slices_data |-> << >>]

\* the locals of bishop_simplified before the first pass (fs_new is not yet
\* assigned; fs_old records the fs the last pass started from)
bishop_enter ==
    [returned |-> FALSE, fs |-> BishopInitialFS, fs_new |-> NaN, fs_old |-> NaN,
     iteration |-> 0, slices_data |-> << >>]

\* one pass of the loop "for iteration in range(max_iter)" on the locals l:
\* the sums, the new FS, the convergence check, and then either the return
\* from inside the loop (returned = TRUE) or the assignments that end the
\* pass; iteration counts the passes made; nothing happens once the function
\* has returned
bishop_iterate(l, slices, layers, g, w, circle, kh, tol) ==
    IF l.returned THEN l
    ELSE The({ IF bishop_converged(p.fs_new, l.fs, tol)
               THEN [returned |-> TRUE, fs |-> l.fs, fs_new |-> p.fs_new, fs_old |-> l.fs,
                     iteration |-> l.iteration + 1, slices_data |-> p.temp_slices_data]
               ELSE [returned |-> FALSE, fs |-> p.fs_new, fs_new |-> p.fs_new,
                     fs_old |-> l.fs, iteration |-> l.iteration + 1,
                     slices_data |-> p.temp_slices_data] :
               p \in {bishop_pass(slices, layers, g, w, circle, kh, l.fs)} })

\* n consecutive passes of the loop from the locals l (the range is split in
\* halves, which keeps the evaluation shallow; the passes run in order)
RECURSIVE bishop_loop(_, _, _, _, _, _, _, _, _)
bishop_loop(n, l, slices, layers, g, w, circle, kh, tol) ==
    IF n <= 0 THEN l
    ELSE IF n = 1 THEN bishop_iterate(l, slices, layers, g, w, circle, kh, tol)
    ELSE The({ bishop_loop(n - n \div 2, half, slices, layers, g, w, circle, kh, tol) :
               half \in {bishop_loop(n \div 2, l, slices, layers, g, w, circle, kh, tol)} })

\* the AnalysisResults returned from the locals l after the loop: from inside
\* the loop on convergence, after it when max_iter passes did not converge
bishop_return(l, circle, kh, max_iter) ==
    IF l.returned
    THEN AnalysisResults(method_label("Bishop's Simplified", kh),
                         l.fs_new, l.slices_data, circle, TRUE, l.iteration)
    ELSE AnalysisResults(method_label("Bishop's Simplified", kh),
                         l.fs, l.slices_data, circle, FALSE, max_iter)

bishop_simplified(slices, layers, g, w, circle, kh, max_iter, tol) ==
    The({ bishop_return(l, circle, kh, max_iter) :
          l \in {bishop_loop(max_iter, bishop_enter, slices, layers, g, w, circle, kh,
                             tol)} })

\* ------------------------------------------------------------------------
\* Critical surface search
\* ------------------------------------------------------------------------
\* None, as the value of an Optional[AnalysisResults]
None == [none |-> TRUE]

\* the radius factors r_factors
r_factors == <<800, 900, 1000, 1100, 1200, 1300, 1400, 1500>>

\* the floor a factor of safety must exceed to be tracked: 0.1
FsFloor == 100

\* default max_iter and tol of bishop_simplified
DefaultMaxIter == 100

DefaultTol == 1

\* int(np.sqrt(n_circles)), the number of center x (and y) values
\* variant: as many centre coordinates as n_circles
grid_points_linear(n) == n

grid_points(n) == isqrt_between(n, 0, n)

\* element i (0-based) of np.linspace(start, stop, num)
linspace(start, stop, num, i) ==
    IF num = 1 THEN start ELSE start + TDiv(i * (stop - start), num - 1)

\* the number of (x_c, y_c, r_f) combinations of the nested loops
grid_total(n) == grid_points(n) * grid_points(n) * Len(r_factors)

\* the circle of the k-th combination (0-based) in enumeration order: x_c
\* outermost, then y_c, then r_f
\* variant: every other candidate is the one before it once more
grid_circle_retried(k, g, n) ==
    LET H == g.height
        toe_x == g.toe_x
        toe_elevation == g.toe_elevation
        slope_width == Mul(H, g.slope_ratio)
        crest_elevation == toe_elevation + H
        num == grid_points(n)
        j == k - (k % 2)
        x_c == linspace(toe_x - Mul(H, 500), toe_x + Mul(slope_width, 300), num,
                        j \div (num * Len(r_factors)))
        y_c == linspace(crest_elevation + Mul(H, 200), crest_elevation + Mul(H, 1500), num,
                        (j \div Len(r_factors)) % num)
        r_f == r_factors[(j % Len(r_factors)) + 1]
        dist_to_toe == Sqrt((x_c - toe_x) * (x_c - toe_x)
                            + (y_c - toe_elevation) * (y_c - toe_elevation))
        dist_to_crest == Sqrt((x_c - (toe_x + slope_width)) * (x_c - (toe_x + slope_width))
                              + (y_c - crest_elevation) * (y_c - crest_elevation))
        base_radius == TDiv(dist_to_toe + dist_to_crest, 2)
        radius == Mul(base_radius, r_f)
    IN  SlipCircle(x_c, y_c, radius)

grid_circle(k, g, n) ==
    LET H == g.height
        toe_x == g.toe_x
        toe_elevation == g.toe_elevation
        slope_width == Mul(H, g.slope_ratio)
        crest_elevation == toe_elevation + H
        num == grid_points(n)
        x_c == linspace(toe_x - Mul(H, 500), toe_x + Mul(slope_width, 300), num,
                        k \div (num * Len(r_factors)))
        y_c == linspace(crest_elevation + Mul(H, 200), crest_elevation + Mul(H, 1500), num,
                        (k \div Len(r_factors)) % num)
        r_f == r_factors[(k % Len(r_factors)) + 1]
        dist_to_toe == Sqrt((x_c - toe_x) * (x_c - toe_x)
                            + (y_c - toe_elevation) * (y_c - toe_elevation))
        dist_to_crest == Sqrt((x_c - (toe_x + slope_width)) * (x_c - (toe_x + slope_width))
                              + (y_c - crest_elevation) * (y_c - crest_elevation))
        base_radius == TDiv(dist_to_toe + dist_to_crest, 2)
        radius == Mul(base_radius, r_f)
    IN  SlipCircle(x_c, y_c, radius)

\* the plausibility guards: TRUE where the loop body continues before
\* discretizing
\* variant: the lowest point of the circle is not tested
circle_rejected_shallow(circle, g) ==
    LET H == g.height
        toe_elevation == g.toe_elevation
    IN  \/ circle.radius < Mul(H, 500)
        \/ circle.radius > H * 4
        \/ circle.y_center < toe_elevation + Mul(H, 500)

circle_rejected(circle, g) ==
    LET H == g.height
        toe_elevation == g.toe_elevation
        circle_bottom == circle.y_center - circle.radius
    IN  \/ circle.radius < Mul(H, 500)
        \/ circle.radius > H * 4
        \/ circle_bottom > toe_elevation - 500
        \/ circle.y_center < toe_elevation + Mul(H, 500)

\* the selected solver with its default max_iter and tol
run_method(m, slices, layers, g, w, circle, kh) ==
    IF m = "Swedish"
    THEN swedish_method(slices, layers, g, w, circle, kh)
    ELSE bishop_simplified(slices, layers, g, w, circle, kh, DefaultMaxIter, DefaultTol)

\* variant: every FS above the floor replaces the best so far
improves_latest(fs, min) == Lt(FsFloor, fs)

\* result.fs < min_fs and result.fs > 0.1
improves(fs, min) == Lt(fs, min) /\ Lt(FsFloor, fs)

\* variant: every candidate is discretized and analyzed
search_body_unskipped(circle, g, layers, w, m, kh) ==
    The({ [outcome |-> "evaluated",
           result |-> run_method(m, slices, layers, g, w, circle, kh)] :
          slices \in {slice_geometry(circle, g, 15)} })

\* the body of the innermost loop for one candidate circle
search_body(circle, g, layers, w, m, kh) ==
    IF circle_rejected(circle, g) THEN [outcome |-> "guard"]
    ELSE The({ IF Len(slices) < 5 THEN [outcome |-> "few_slices", n_valid |-> Len(slices)]
               ELSE [outcome |-> "evaluated",
                     result |-> run_method(m, slices, layers, g, w, circle, kh)] :
               slices \in {slice_geometry(circle, g, 15)} })

\* variant: a refined FS that is not above the floor is dropped
search_refine_floored(best, g, layers, w, m, kh) ==
    IF best # None
    THEN The({ IF Lt(FsFloor, refined.fs) THEN refined ELSE None :
               refined \in
                   { run_method(m, slices, layers, g, w, best.critical_circle, kh) :
                     slices \in {slice_geometry(best.critical_circle, g, 25)} } })
    ELSE best

\* the refinement after the grid pass and the return value
search_refine(best, g, layers, w, m, kh) ==
    IF best # None
    THEN The({ run_method(m, slices, layers, g, w, best.critical_circle, kh) :
               slices \in {slice_geometry(best.critical_circle, g, 25)} })
    ELSE best

\* ------------------------------------------------------------------------
\* Inputs
\* ------------------------------------------------------------------------
Geometry(H, slope_ratio, crest_width, toe_x, toe_elevation) ==
    [height |-> H, slope_ratio |-> slope_ratio, crest_width |-> crest_width,
     toe_x |-> toe_x, toe_elevation |-> toe_elevation]

SoilLayer(name, thickness, gamma, gamma_sat, cohesion, phi) ==
    [name |-> name, thickness |-> thickness, gamma |-> gamma, gamma_sat |-> gamma_sat,
     cohesion |-> cohesion, phi |-> phi]

\* largest search density drawn
MaxNCircles == 4

Embankment == Geometry(4000, 1500, 10000, 5000, 0)

RaisedEmbankment == Geometry(6000, 2000, 3000, 0, 1000)

\* a high, steep cut: the leftmost grid centres lie more than 5 left of the toe
SteepCut == Geometry(24000, 60, 10000, 5000, 0)

Clay == SoilLayer("clay", 30000, 18000, 20000, 20000, 20)

Silt == SoilLayer("silt", 30000, 18000, 20000, 5000, 30)

\* friction only
LooseSand == SoilLayer("loose sand", 30000, 18000, 20000, 0, 10)

\* neither cohesion nor friction
Mud == SoilLayer("mud", 30000, 18000, 20000, 0, 0)

Fill == SoilLayer("fill", 3000, 17000, 19000, 10000, 30)

SoftClay == SoilLayer("soft clay", 30000, 18000, 20000, 20000, 10)

\* weightless cover
Foam == SoilLayer("foam", 800, 0, 0, 0, 0)

\* nearly weightless cohesive soil
LightClay == SoilLayer("light clay", 30000, 10, 10, 20000, 0)

Methods == {"Swedish", "Bishop"}

SeismicCoefs == {0, 150}

NCircles == {-1, 0, 1, 2, MaxNCircles}

\* the arguments search_critical_circle is called with
SearchInputs ==
    [g : {Embankment}, layers : {<< >>, <<Clay>>, <<Silt>>, <<Fill, SoftClay>>},
     gwl : {2000}, method : Methods, kh : SeismicCoefs, n : NCircles]
    \cup [g : {Embankment, RaisedEmbankment}, layers : {<<Mud>>, <<Clay>>},
          gwl : {2000, 6500}, method : {"Swedish"}, kh : {0}, n : NCircles]
    \cup [g : {Embankment}, layers : {<<Silt>>, <<Mud>>},
          gwl : {6500}, method : {"Bishop"}, kh : {0}, n : {1}]
    \cup [g : {Embankment}, layers : {<<Foam, LightClay>>},
          gwl : {2000}, method : Methods, kh : {0}, n : {1}]
    \cup [g : {SteepCut}, layers : {<<Clay>>},
          gwl : {2000}, method : Methods, kh : {0}, n : {1}]

\* ------------------------------------------------------------------------
\* search_critical_circle as a state machine: one step per grid candidate,
\* then the refinement and the return
\* ------------------------------------------------------------------------
NoCall == [op |-> "none"]

Init ==
    /\ \E i \in SearchInputs :
          /\ slope_geometry = i.g
          /\ soil_layers = i.layers
          /\ gwl = i.gwl
          /\ method = i.method
          /\ seismic_coef = i.kh
          /\ n_circles = i.n
    /\ pc = "grid"
    /\ cand = 0
    /\ min_fs = Infinity
    /\ best_result = None
    /\ evaluated = << >>
    /\ last = [outcome |-> "none"]
    /\ returned = None
    /\ solver = NoCall
    /\ bishop = NoCall
    /\ result = None
    /\ call = NoCall

\* variant: on improvement the FS of the stored result is overwritten in place
SearchCandidate_in_place ==
    /\ pc = "grid"
    /\ n_circles >= 0
    /\ cand < grid_total(n_circles)
    /\ \E circle \in {grid_circle(cand, slope_geometry, n_circles)} :
       \E body \in {search_body(circle, slope_geometry, soil_layers, gwl, method, seismic_coef)} :
           IF body.outcome = "evaluated"
           THEN /\ evaluated' = Append(evaluated, [circle |-> circle, fs |-> body.result.fs])
                /\ last' = [outcome |-> body.outcome, circle |-> circle,
                            accepted |-> improves(body.result.fs, min_fs)]
                /\ IF improves(body.result.fs, min_fs)
                   THEN /\ min_fs' = body.result.fs
                        /\ best_result' = IF best_result = None THEN body.result
                                          ELSE [best_result EXCEPT !.fs = body.result.fs]
                   ELSE UNCHANGED <<min_fs, best_result>>
           ELSE /\ last' = [outcome |-> body.outcome, circle |-> circle, accepted |-> FALSE]
                /\ UNCHANGED <<evaluated, min_fs, best_result>>
    /\ cand' = cand + 1
    /\ UNCHANGED <<input_vars, n_circles, pc, returned, solver_vars, call>>

SearchCandidate ==
    /\ pc = "grid"
    /\ n_circles >= 0
    /\ cand < grid_total(n_circles)
    /\ \E circle \in {grid_circle(cand, slope_geometry, n_circles)} :
       \E body \in {search_body(circle, slope_geometry, soil_layers, gwl, method, seismic_coef)} :
           IF body.outcome = "evaluated"
           THEN /\ evaluated' = Append(evaluated, [circle |-> circle, fs |-> body.result.fs])
                /\ last' = [outcome |-> body.outcome, circle |-> circle,
                            accepted |-> improves(body.result.fs, min_fs)]
                /\ IF improves(body.result.fs, min_fs)
                   THEN /\ min_fs' = body.result.fs
                        /\ best_result' = body.result
                   ELSE UNCHANGED <<min_fs, best_result>>
           ELSE /\ last' = [outcome |-> body.outcome, circle |-> circle, accepted |-> FALSE]
                /\ UNCHANGED <<evaluated, min_fs, best_result>>
    /\ cand' = cand + 1
    /\ UNCHANGED <<input_vars, n_circles, pc, returned, solver_vars, call>>

\* variant: the coarse result is returned as it is
SearchRefine_coarse ==
    /\ pc = "grid"
    /\ n_circles >= 0
    /\ cand = grid_total(n_circles)
    /\ returned' = best_result
    /\ pc' = "done"
    /\ UNCHANGED <<input_vars, n_circles, cand, min_fs, best_result, evaluated, last,
                   solver_vars, call>>

SearchRefine ==
    /\ pc = "grid"
    /\ n_circles >= 0
    /\ cand = grid_total(n_circles)
    /\ \E refined \in {search_refine(best_result, slope_geometry, soil_layers, gwl, method,
                                      seismic_coef)} :
          /\ best_result' = refined
          /\ returned' = refined
    /\ pc' = "done"
    /\ UNCHANGED <<input_vars, n_circles, cand, min_fs, evaluated, last, solver_vars, call>>

\* int(np.sqrt(n_circles)) for a negative n_circles: the square root is nan
\* and int(nan) raises ValueError, before any candidate is enumerated
SearchRaise ==
    /\ pc = "grid"
    /\ n_circles < 0
    /\ pc' = "raised"
    /\ UNCHANGED <<input_vars, search_vars, solver_vars, call>>

Next == SearchCandidate \/ SearchRefine \/ SearchRaise

Spec == Init /\ [][Next]_vars

\* ------------------------------------------------------------------------
\* Direct calls of the solvers: swedish_method in one step, bishop_simplified
\* one pass of its loop per step
\* ------------------------------------------------------------------------
\* largest iteration cap drawn below the default
MaxSmallIter == 2

\* largest slice count drawn
MaxSlices == 15

SolverCircles ==
    { grid_circle(3, Embankment, 1), grid_circle(7, Embankment, 1),
      SlipCircle(8000, 6000, 7000), SlipCircle(24000, 8000, 10000) }

SliceCounts == {1, 5, MaxSlices}

MaxIters == 0..MaxSmallIter \cup {DefaultMaxIter}

\* the arguments the solvers are called with
SolverInputs ==
    [layers : {<< >>, <<Clay>>, <<Fill, SoftClay>>}, gwl : {2000}, kh : SeismicCoefs,
     circle : SolverCircles, n_slices : SliceCounts, method : Methods, max_iter : {DefaultMaxIter}]
    \cup [layers : {<<Silt>>, <<LooseSand>>}, gwl : {2000, 6500, 9000}, kh : {0},
          circle : SolverCircles, n_slices : {MaxSlices}, method : Methods, max_iter : MaxIters]
    \cup [layers : {<<Mud>>, <<Clay>>}, gwl : {2000}, kh : {0},
          circle : SolverCircles, n_slices : {1, 5}, method : {"Bishop"}, max_iter : MaxIters]
    \cup [layers : {<< >>}, gwl : {2000}, kh : {0},
          circle : SolverCircles, n_slices : {5}, method : {"Bishop"}, max_iter : MaxIters]

SolverInit ==
    /\ \E i \in SolverInputs :
          /\ slope_geometry = Embankment
          /\ soil_layers = i.layers
          /\ gwl = i.gwl
          /\ method = i.method
          /\ seismic_coef = i.kh
          /\ solver = [pc |-> "call", circle |-> i.circle,
                       slices |-> slice_geometry(i.circle, Embankment, i.n_slices),
                       max_iter |-> i.max_iter, tol |-> DefaultTol]
    /\ bishop = NoCall
    /\ result = None
    /\ n_circles = 0
    /\ pc = "idle"
    /\ cand = 0
    /\ min_fs = Infinity
    /\ best_result = None
    /\ evaluated = << >>
    /\ last = [outcome |-> "none"]
    /\ returned = None
    /\ call = NoCall

\* swedish_method(slices, soil_layers, slope_geometry, gwl, circle, seismic_coef)
SwedishCall ==
    /\ solver.pc = "call"
    /\ method = "Swedish"
    /\ result' = swedish_method(solver.slices, soil_layers, slope_geometry, gwl,
                                solver.circle, seismic_coef)
    /\ solver' = [solver EXCEPT !.pc = "done"]
    /\ UNCHANGED <<input_vars, search_vars, pc, bishop, call>>

\* entry of bishop_simplified: the initial guess, before the first pass
BishopEnter ==
    /\ solver.pc = "call"
    /\ method = "Bishop"
    /\ bishop' = bishop_enter
    /\ solver' = [solver EXCEPT !.pc = "loop"]
    /\ UNCHANGED <<input_vars, search_vars, pc, result, call>>

\* one pass of the loop "for iteration in range(max_iter)"
BishopPass ==
    /\ solver.pc = "loop"
    /\ ~bishop.returned
    /\ bishop.iteration < solver.max_iter
    /\ bishop' = bishop_iterate(bishop, solver.slices, soil_layers, slope_geometry, gwl,
                                solver.circle, seismic_coef, solver.tol)
    /\ UNCHANGED <<input_vars, search_vars, pc, solver, result, call>>

\* the return of bishop_simplified: from the pass that converged, or after
\* max_iter passes
BishopReturn ==
    /\ solver.pc = "loop"
    /\ bishop.returned \/ bishop.iteration >= solver.max_iter
    /\ result' = bishop_return(bishop, solver.circle, seismic_coef, solver.max_iter)
    /\ solver' = [solver EXCEPT !.pc = "done"]
    /\ UNCHANGED <<input_vars, search_vars, pc, bishop, call>>

SolverNext == SwedishCall \/ BishopEnter \/ BishopPass \/ BishopReturn

SolverSpec == SolverInit /\ [][SolverNext]_vars

\* a solver call is synchronous code: once entered it runs on until it returns
SolverLiveSpec == SolverSpec /\ WF_vars(SolverNext)

\* ------------------------------------------------------------------------
\* Direct calls of the geometry and soil queries
\* ------------------------------------------------------------------------
\* largest soil stack drawn
MaxLayers == 2

Veneer == SoilLayer("veneer", 1000, 16000, 18000, 2000, 20)

LayerTypes == {Veneer, Fill, Clay}

\* the soil stacks of at most MaxLayers layers
SoilStacks == UNION { [1..n -> LayerTypes] : n \in 0..MaxLayers }

QueryGeometries == {Embankment, RaisedEmbankment, Geometry(1000, 3000, 0, -2000, -500)}

\* thickness of the first i layers
RECURSIVE CumulativeThickness(_, _)
CumulativeThickness(layers, i) ==
    IF i = 0 THEN 0 ELSE CumulativeThickness(layers, i - 1) + layers[i].thickness

\* the offsets x is drawn from: around the toe, on the slope, around the
\* start and the end of the crest, beyond
XSamples(g) ==
    LET slope_width == Mul(g.height, g.slope_ratio)
    IN  { g.toe_x + d : d \in {-1000, -1, 0, 1, 500} }
        \cup { g.toe_x + slope_width + d : d \in {-500, -1, 0, 1} }
        \cup { g.toe_x + slope_width + g.crest_width + d : d \in {-1, 0, 1, 7000} }

\* the elevations y is drawn from at offset x: around the surface, around
\* every layer boundary, below the stack, around the groundwater level
YSamples(x, g, layers, w) ==
    LET top == get_slope_surface_y(x, g)
    IN  { top - CumulativeThickness(layers, i) + d :
              i \in 0..Len(layers), d \in {-1, 0, 1} }
        \cup { top - CumulativeThickness(layers, Len(layers)) - 5000 }
        \cup { w - 1, w, w + 1 }

QueryInit ==
    /\ slope_geometry \in QueryGeometries
    /\ soil_layers \in SoilStacks
    /\ gwl \in {-2000, 2000}
    /\ method = "Swedish"
    /\ seismic_coef = 0
    /\ n_circles = 0
    /\ pc = "idle"
    /\ cand = 0
    /\ min_fs = Infinity
    /\ best_result = None
    /\ evaluated = << >>
    /\ last = [outcome |-> "none"]
    /\ returned = None
    /\ solver = NoCall
    /\ bishop = NoCall
    /\ result = None
    /\ call = NoCall

\* get_slope_surface_y(x, slope_geometry)
SurfaceCall ==
    /\ call = NoCall
    /\ \E x \in XSamples(slope_geometry) :
          call' = [op |-> "get_slope_surface_y", x |-> x,
                   ret |-> get_slope_surface_y(x, slope_geometry)]
    /\ UNCHANGED <<input_vars, search_vars, pc, solver_vars>>

\* get_soil_at_point(x, y, slope_geometry, soil_layers, gwl)
SoilAtPointCall ==
    /\ call = NoCall
    /\ \E x \in XSamples(slope_geometry) :
          \E y \in YSamples(x, slope_geometry, soil_layers, gwl) :
              call' = [op |-> "get_soil_at_point", x |-> x, y |-> y,
                       ret |-> get_soil_at_point(x, y, slope_geometry, soil_layers, gwl)]
    /\ UNCHANGED <<input_vars, search_vars, pc, solver_vars>>

\* the circles slice_geometry is called with: through the slope, above the
\* ground, tangent to the toe level, left of the toe, right of the crest
QueryCircles(g) ==
    LET crest_elevation == g.toe_elevation + g.height
        crest_end == g.toe_x + Mul(g.height, g.slope_ratio) + g.crest_width
    IN  { SlipCircle(g.toe_x + 1000, crest_elevation + 1000, g.height + 2000),
          SlipCircle(g.toe_x, crest_elevation + 3000, 1000),
          SlipCircle(g.toe_x, g.toe_elevation + 2000, 2000),
          SlipCircle(g.toe_x - 12000, g.toe_elevation + 3000, 5000),
          SlipCircle(crest_end + g.height + 7000, crest_elevation + 1000, g.height + 2000) }

QuerySliceCounts == {1, 5}

\* slice_geometry(circle, slope_geometry, n_slices)
SliceCall ==
    /\ call = NoCall
    /\ \E circle \in QueryCircles(slope_geometry) :
          \E n_slices \in QuerySliceCounts :
              call' = [op |-> "slice_geometry", circle |-> circle, n_slices |-> n_slices,
                       ret |-> slice_geometry(circle, slope_geometry, n_slices)]
    /\ UNCHANGED <<input_vars, search_vars, pc, solver_vars>>

\* the offsets and radius factors generate_slip_circle is called with
XOffsets == {-2000, 0, 1000}

YOffsets == {0, 1000}

RFactors == {0, 1, 800, 1000, 1500}

\* generate_slip_circle(slope_geometry, x_offset, y_offset, r_factor)
GenerateCall ==
    /\ call = NoCall
    /\ \E x_offset \in XOffsets, y_offset \in YOffsets, r_factor \in RFactors :
          call' = [op |-> "generate_slip_circle", x_offset |-> x_offset,
                   y_offset |-> y_offset, r_factor |-> r_factor,
                   ret |-> generate_slip_circle(slope_geometry, x_offset, y_offset, r_factor)]
    /\ UNCHANGED <<input_vars, search_vars, pc, solver_vars>>

QueryNext == SurfaceCall \/ SoilAtPointCall \/ SliceCall \/ GenerateCall

QuerySpec == QueryInit /\ [][QueryNext]_vars

\* ------------------------------------------------------------------------
\* Construction of the value objects by a caller, followed by a query
\* ------------------------------------------------------------------------
\* the thicknesses and friction angles a caller constructs a SoilLayer with
BuildThicknesses == {-1000, 2000}

BuildAngles == {30, 100}

\* the geometry dicts a caller supplies
BuildGeometries ==
    {Embankment, Geometry(0, 1500, 10000, 5000, 0), Geometry(-2000, 1500, 10000, 5000, 0)}

\* SoilLayer.__post_init__: every numeric field is passed through float(),
\* which keeps the value of a number and raises on none of them
post_init(layer) ==
    [name |-> layer.name, thickness |-> layer.thickness, gamma |-> layer.gamma,
     gamma_sat |-> layer.gamma_sat, cohesion |-> layer.cohesion, phi |-> layer.phi]

BuildInit ==
    /\ slope_geometry \in BuildGeometries
    /\ soil_layers = << >>
    /\ gwl = 2000
    /\ method = "Swedish"
    /\ seismic_coef = 0
    /\ n_circles = 0
    /\ pc = "build"
    /\ cand = 0
    /\ min_fs = Infinity
    /\ best_result = None
    /\ evaluated = << >>
    /\ last = [outcome |-> "none"]
    /\ returned = None
    /\ solver = NoCall
    /\ bishop = NoCall
    /\ result = None
    /\ call = NoCall

\* SoilLayer(name, thickness, gamma, gamma_sat, cohesion, phi, ...) appended to
\* the caller's soil stack
ConstructLayer ==
    /\ pc = "build"
    /\ call = NoCall
    /\ Len(soil_layers) < MaxLayers
    /\ \E thickness \in BuildThicknesses, phi \in BuildAngles :
          soil_layers' =
              Append(soil_layers,
                     post_init(SoilLayer("layer", thickness, 18000, 20000, 10000, phi)))
    /\ UNCHANGED <<slope_geometry, gwl, method, seismic_coef, search_vars, pc, solver_vars, call>>

BuildNext == ConstructLayer \/ SoilAtPointCall

BuildSpec == BuildInit /\ [][BuildNext]_vars

\* ------------------------------------------------------------------------
\* Properties of the search
\* ------------------------------------------------------------------------
\* the candidates evaluated so far whose grid-pass FS is above the floor
AboveFloor == { k \in 1..Len(evaluated) : Lt(FsFloor, evaluated[k].fs) }

\* C1 as stated: the FS carried by the returned result is not larger than the
\* grid-pass FS of any candidate that passed the guards, had at least 5
\* slices and produced an FS above 0.1.
C1_Original ==
    (pc = "done" /\ returned # None) =>
        \A k \in AboveFloor : ~Lt(evaluated[k].fs, returned.fs)

\* C1 amended: the minimum is taken over the grid pass.  min_fs is not larger
\* than the grid-pass FS of any such candidate, it is the grid-pass FS of the
\* circle kept as best, and the returned result carries that circle (its FS is
\* the 25-slice re-evaluation of the circle, which may lie on either side).
C1_MinimumOfGridPass ==
    /\ \A k \in AboveFloor : min_fs <= evaluated[k].fs
    /\ (pc = "grid" /\ best_result # None) => best_result.fs = min_fs
    /\ (pc = "done" /\ returned # None) =>
          \E k \in AboveFloor : /\ evaluated[k].fs = min_fs
                                /\ evaluated[k].circle = returned.critical_circle

\* the search returned a refined FS above the grid-pass FS of an accepted
\* candidate
C1_Witness ==
    /\ pc = "done"
    /\ returned # None
    /\ Cardinality(AboveFloor) >= 2
    /\ \E k \in AboveFloor : Lt(evaluated[k].fs, returned.fs)

\* C2: the search returns None exactly when no candidate passed the guards,
\* the 5-slice minimum and the FS > 0.1 floor; otherwise it returns an
\* AnalysisResults.
C2_ExhaustionIsNone ==
    pc = "done" => (returned = None <=> AboveFloor = {})

\* candidates were evaluated, none above the floor, and the search returned
\* None
C2_Witness ==
    /\ pc = "done"
    /\ returned = None
    /\ Len(evaluated) > 0

\* abscissas across a circle, from its left end to its right end, its lowest
\* point among them
XAcross(circle) == { circle.x_center + TDiv(k * circle.radius, 8) : k \in -8..8 }

\* elevation of the lower arc of the circle at x, |x - x_center| <= radius
ArcBase(circle, x) ==
    circle.y_center
        - Sqrt(circle.radius * circle.radius
                   - (x - circle.x_center) * (x - circle.x_center))

\* the circle lies above the ground surface all across
EntirelyAbove(circle, g) ==
    \A x \in XAcross(circle) : ArcBase(circle, x) > get_slope_surface_y(x, g)

\* C11: a candidate circle that lies entirely above the ground surface gives
\* an empty slice list, is not analyzed and leaves the best result and the
\* minimum alone, and the search goes on to the next candidate.
C11_DegenerateCircleSkipped ==
    [][ (pc = "grid" /\ pc' = "grid" /\ EntirelyAbove(last'.circle, slope_geometry)) =>
            /\ slice_geometry(last'.circle, slope_geometry, 15) = << >>
            /\ last'.outcome # "evaluated"
            /\ cand' = cand + 1
            /\ UNCHANGED <<min_fs, best_result, evaluated>> ]_vars

\* the search went past a candidate circle that lies entirely above the
\* ground, with candidates left
C11_Witness ==
    /\ pc = "grid"
    /\ cand > 0
    /\ cand < grid_total(n_circles)
    /\ last.outcome # "evaluated"
    /\ EntirelyAbove(last.circle, slope_geometry)

SliceCalled == call # NoCall /\ call.op = "slice_geometry"

Radicand(circle, x) ==
    circle.radius * circle.radius - (x - circle.x_center) * (x - circle.x_center)

\* C12: every slice record slice_geometry returns lies on a column whose
\* radicand is not negative, carries the surface elevation at its midpoint and
\* the elevation of the circle's lower arc there, has its base strictly below
\* the surface, and has height = surface - base > 0
C12_SlicesHaveBaseBelowSurface ==
    SliceCalled =>
        \A k \in 1..Len(call.ret) :
            /\ Radicand(call.circle, call.ret[k].x_mid) >= 0
            /\ call.ret[k].y_surface = get_slope_surface_y(call.ret[k].x_mid, slope_geometry)
            /\ call.ret[k].y_base
                   = call.circle.y_center - Sqrt(Radicand(call.circle, call.ret[k].x_mid))
            /\ call.ret[k].y_base < call.ret[k].y_surface
            /\ call.ret[k].height = call.ret[k].y_surface - call.ret[k].y_base
            /\ call.ret[k].height > 0

\* some columns were kept and some were dropped
C12_Witness ==
    /\ SliceCalled
    /\ Len(call.ret) > 0
    /\ Len(call.ret) < call.n_slices

\* C3 as stated: the FS of a returned result is greater than 0.1.
C3_ReturnedAboveFloor ==
    (pc = "done" /\ returned # None) => Lt(FsFloor, returned.fs)

\* ------------------------------------------------------------------------
\* Properties of the solvers
\* ------------------------------------------------------------------------
RECURSIVE SumResisting(_)
SumResisting(data) ==
    IF data = << >> THEN 0 ELSE Head(data).resisting + SumResisting(Tail(data))

RECURSIVE SumDriving(_)
SumDriving(data) ==
    IF data = << >> THEN 0 ELSE Head(data).driving + SumDriving(Tail(data))

RECURSIVE SumAbsDriving(_)
SumAbsDriving(data) ==
    IF data = << >> THEN 0 ELSE Abs(Head(data).driving) + SumAbsDriving(Tail(data))

RECURSIVE NumeratorTotal(_)
NumeratorTotal(data) ==
    IF data = << >> THEN 0 ELSE Head(data).numerator + NumeratorTotal(Tail(data))

SumNumerator(data) ==
    IF \E k \in 1..Len(data) : data[k].numerator = NaN THEN NaN
    ELSE NumeratorTotal(data)

\* a / b on floats, b > 0
Ratio(a, b) == IF a = NaN THEN NaN ELSE Quot(a, b)

SwedishDone == solver # NoCall /\ solver.pc = "done" /\ method = "Swedish"

BishopDone == solver # NoCall /\ solver.pc = "done" /\ method = "Bishop"

\* the last pass of the Bishop loop met the tolerance
LastPassWithinTol ==
    /\ bishop.iteration > 0
    /\ bishop.fs_new # NaN
    /\ bishop.fs_old # NaN
    /\ Abs(bishop.fs_new - bishop.fs_old) < solver.tol

\* C4, in every state: the loop never makes more than max_iter passes; it
\* goes on exactly while no pass met the tolerance; converged is true exactly
\* when the last pass met it, with iterations the number of passes (1 to
\* max_iter) and the FS of that pass; otherwise converged is false,
\* iterations is max_iter and the FS and slice data are those of the last
\* pass.
C4_Inv ==
    /\ bishop # NoCall => bishop.iteration <= solver.max_iter
    /\ (bishop # NoCall /\ bishop.iteration > 0) => (bishop.returned <=> LastPassWithinTol)
    /\ BishopDone =>
          /\ result.converged <=> LastPassWithinTol
          /\ result.converged =>
                /\ result.iterations = bishop.iteration
                /\ result.iterations \in 1..solver.max_iter
          /\ ~result.converged =>
                /\ result.iterations = solver.max_iter
                /\ bishop.iteration = solver.max_iter
          /\ bishop.iteration > 0 => result.fs = bishop.fs_new
          /\ result.slices_data = bishop.slices_data

\* a step inside the loop either makes one more pass, of fewer than max_iter
\* made so far, or returns without touching the locals
C4_Step ==
    (solver # NoCall /\ solver.pc = "loop") =>
        IF solver'.pc = "loop"
        THEN /\ bishop.iteration < solver.max_iter
             /\ bishop'.iteration = bishop.iteration + 1
        ELSE /\ solver'.pc = "done"
             /\ bishop' = bishop

\* C4: bishop_simplified always returns, after at most max_iter passes (every
\* step of the loop adds one to a pass count that never exceeds max_iter, or
\* returns), with the flag, the count and the FS that C4_Inv describes.
C4_BishopTerminates == []C4_Inv /\ [][C4_Step]_vars /\ <>(solver.pc = "done")

\* the default cap was hit: 100 passes, none within the tolerance
C4_Witness ==
    /\ BishopDone
    /\ solver.max_iter = DefaultMaxIter
    /\ ~result.converged
    /\ result.iterations = DefaultMaxIter
    /\ Len(solver.slices) >= 5

\* C5 as stated: the FS of swedish_method is the sum of the resisting
\* contributions over the absolute value of the sum of the signed driving
\* contributions T_i.
C5_SignedDrivingSum ==
    SwedishDone =>
        result.fs = IF Abs(SumDriving(result.slices_data)) < DrivingEps THEN SentinelFS
                    ELSE Quot(SumResisting(result.slices_data),
                              Abs(SumDriving(result.slices_data)))

\* every slice of the call has base angle 0
AllAlphaZero == \A k \in 1..Len(solver.slices) : solver.slices[k].alpha.sin = 0

C7_NonNegativeFS ==
    result # None => (result.fs # NaN /\ result.fs >= 0)

\* ------------------------------------------------------------------------
\* Properties of the geometry and soil queries
\* ------------------------------------------------------------------------
SoilCalled == call # NoCall /\ call.op = "get_soil_at_point"

SurfaceCalled == call # NoCall /\ call.op = "get_slope_surface_y"

\* depth of the queried point below the ground surface
CallDepth == get_slope_surface_y(call.x, slope_geometry) - call.y

\* C8: for a point at or below the surface and a non-empty stack, the layer
\* returned is the first whose cumulative thickness is >= the depth (a point
\* on a boundary belongs to the upper layer), and the last layer when the
\* depth exceeds the total thickness.
C8_LayerAtDepth ==
    (SoilCalled /\ CallDepth >= 0 /\ Len(soil_layers) > 0) =>
        IF CallDepth > CumulativeThickness(soil_layers, Len(soil_layers))
        THEN call.ret.soil = Len(soil_layers)
        ELSE /\ call.ret.soil \in 1..Len(soil_layers)
             /\ CumulativeThickness(soil_layers, call.ret.soil) >= CallDepth
             /\ \A j \in 1..(call.ret.soil - 1) :
                    CumulativeThickness(soil_layers, j) < CallDepth

\* a point exactly on the boundary between the first and the second layer
C8_Witness ==
    /\ SoilCalled
    /\ Len(soil_layers) >= 2
    /\ CallDepth = soil_layers[1].thickness
    /\ call.ret.soil = 1

\* C9: a point strictly above the surface gives (None, False); whenever a
\* layer is returned the submerged flag is (y < GWL).
C9_NotFoundAndSubmerged ==
    SoilCalled =>
        /\ CallDepth < 0 => call.ret = [soil |-> NoLayer, is_submerged |-> FALSE]
        /\ call.ret.soil # NoLayer => (call.ret.is_submerged <=> call.y < gwl)

\* a point in the soil exactly at the groundwater level: not submerged
C9_Witness ==
    /\ SoilCalled
    /\ call.y = gwl
    /\ call.ret.soil # NoLayer
    /\ ~call.ret.is_submerged

\* C10: the surface elevation is the toe elevation before the toe, the crest
\* elevation from the end of the slope run on, and in between the toe
\* elevation plus the quotient of (x - toe_x) by slope_ratio; it lies in
\* [toe_elevation, toe_elevation + H] and is non-decreasing in x.
C10_SurfaceProfile ==
    SurfaceCalled =>
        LET g == slope_geometry
            rise == call.ret - g.toe_elevation
            run == Mul(g.height, g.slope_ratio)
        IN  /\ call.x < g.toe_x => rise = 0
            /\ call.x >= g.toe_x + run => rise = g.height
            /\ (g.toe_x <= call.x /\ call.x < g.toe_x + run) =>
                  /\ rise * g.slope_ratio <= (call.x - g.toe_x) * SCALE
                  /\ (call.x - g.toe_x) * SCALE < (rise + 1) * g.slope_ratio
            /\ 0 <= rise
            /\ rise <= g.height
            /\ \A x2 \in XSamples(g) :
                  x2 >= call.x => get_slope_surface_y(x2, g) >= call.ret

\* a point on the slope, strictly between toe and crest elevation
C10_Witness ==
    /\ SurfaceCalled
    /\ call.ret > slope_geometry.toe_elevation
    /\ call.ret < slope_geometry.toe_elevation + slope_geometry.height

ValidLayer(layer) == layer.thickness >= 0 /\ layer.phi >= 0 /\ layer.phi <= 90

\* C13 as stated: no SoilLayer with negative thickness or with a friction
\* angle outside [0, 90], and no geometry with non-positive height, reaches
\* get_soil_at_point: constructing such a value fails
C13_InvalidValueNeverReachesCore ==
    SoilCalled =>
        /\ \A k \in 1..Len(soil_layers) : ValidLayer(soil_layers[k])
        /\ slope_geometry.height > 0

GenerateCalled == call # NoCall /\ call.op = "generate_slip_circle"

\* C14 as stated: generate_slip_circle never returns a SlipCircle whose radius
\* is zero; with a radius factor of 0 it produces no circle
C14_RadiusNeverZero == GenerateCalled => call.ret.radius # 0

\* the result of the solver called in this behaviour, had it been called with
\* the soil stack layers and the seismic coefficient kh, all else the same
SolveWith(layers, kh) ==
    IF method = "Swedish"
    THEN swedish_method(solver.slices, layers, slope_geometry, gwl, solver.circle, kh)
    ELSE bishop_simplified(solver.slices, layers, slope_geometry, gwl, solver.circle, kh,
                           solver.max_iter, solver.tol)

SolverDone == solver # NoCall /\ solver.pc = "done"

\* C15 as stated: with the circle, the slices, the soil stack and the
\* groundwater level fixed, the FS returned for a larger seismic coefficient
\* is never larger than the FS returned for a smaller one
C15_SeismicNeverIncreasesFS ==
    SolverDone =>
        \A kh \in SeismicCoefs :
            kh >= seismic_coef => ~Lt(result.fs, SolveWith(soil_layers, kh).fs)

\* the cohesion is raised by
CohesionRaises == {1000, 5000}

\* the soil stack with the cohesion of every layer raised by dc
Raised(layers, dc) ==
    [k \in 1..Len(layers) |-> [layers[k] EXCEPT !.cohesion = @ + dc]]

\* C16 as stated: with the circle, the slices, the groundwater level and the
\* seismic coefficient fixed, the FS returned for a soil of larger cohesion is
\* never smaller than the FS returned for the soil of smaller cohesion
C16_CohesionNeverDecreasesFS ==
    SolverDone =>
        \A dc \in CohesionRaises :
            ~Lt(SolveWith(Raised(soil_layers, dc), seismic_coef).fs, result.fs)

\* the candidates evaluated so far whose FS is above the floor and is a
\* computed value, not the sentinel
FiniteAccepted ==
    { k \in 1..Len(evaluated) :
          /\ Lt(FsFloor, evaluated[k].fs)
          /\ evaluated[k].fs # SentinelFS
          /\ evaluated[k].fs # Infinity }

\* C17 as stated: the sentinel FS is the minimum the search holds only while
\* no evaluated candidate above the floor has a computed FS; a computed FS
\* larger than the sentinel is preferred over the sentinel
C17_SentinelNotPreferred == min_fs = SentinelFS => FiniteAccepted = {}

\* the result the solver of the search returns for circle cut into n slices
Evaluation(circle, n) ==
    run_method(method, slice_geometry(circle, slope_geometry, n), soil_layers,
               slope_geometry, gwl, circle, seismic_coef)

\* C18: no step of the search changes the geometry, the soil layers, the
\* groundwater level or a circle it was given; the FS logged for earlier
\* candidates stay as they were; and whenever the best-so-far result changes,
\* the new value is one whole solver result (of the candidate just evaluated
\* in the grid pass, of the best circle in the refinement), never the old
\* result with some fields altered
C18_WholesaleReplacement ==
    [][ /\ UNCHANGED input_vars
        /\ Len(evaluated') >= Len(evaluated)
        /\ SubSeq(evaluated', 1, Len(evaluated)) = evaluated
        /\ (best_result' # best_result /\ pc' = "grid") =>
               /\ best_result' = Evaluation(last'.circle, 15)
               /\ best_result'.critical_circle = last'.circle
        /\ (best_result' # best_result /\ pc' = "done") =>
               /\ best_result' = Evaluation(best_result.critical_circle, 25)
               /\ best_result'.critical_circle = best_result.critical_circle ]_vars

\* a stored result has been replaced by the result of a later candidate
C18_Witness ==
    /\ pc = "grid"
    /\ last.outcome = "evaluated"
    /\ last.accepted
    /\ best_result.critical_circle = last.circle
    /\ \E k \in 1..(Len(evaluated) - 1) : Lt(FsFloor, evaluated[k].fs)

\* the first candidate of the grid pass whose FS is the minimum held
BestCoarse ==
    CHOOSE k \in AboveFloor :
        /\ evaluated[k].fs = min_fs
        /\ \A j \in AboveFloor : j < k => evaluated[j].fs # min_fs

\* C19: when the grid pass accepted a candidate, the returned result is the
\* evaluation of the best coarse circle cut into 25 slices, with the method
\* and the seismic coefficient of the call, and its critical_circle is that
\* circle
C19_ReturnsRefinedEvaluation ==
    (pc = "done" /\ AboveFloor # {}) =>
        /\ returned = Evaluation(evaluated[BestCoarse].circle, 25)
        /\ returned.critical_circle = evaluated[BestCoarse].circle

\* the refined result differs from the coarse one
C19_Witness ==
    /\ pc = "done"
    /\ AboveFloor # {}
    /\ returned.fs # min_fs
    /\ Len(returned.slices_data) > 15
    /\ returned # Evaluation(evaluated[BestCoarse].circle, 15)

\* the plausibility guards: 0.5 H <= radius <= 4 H, the lowest point at least
\* 0.5 below the toe elevation, the centre at least 0.5 H above it
PassesGuards(circle, g) ==
    /\ 2 * circle.radius >= g.height
    /\ circle.radius <= 4 * g.height
    /\ circle.y_center - circle.radius <= g.toe_elevation - 500
    /\ 2 * (circle.y_center - g.toe_elevation) >= g.height

\* C20: every circle the grid pass discretized or handed to a solver passes
\* all plausibility guards, and a candidate failing a guard is dropped by
\* the guards, before slice_geometry and the solver
C20_OnlyPlausibleCirclesEvaluated ==
    /\ \A k \in 1..Len(evaluated) : PassesGuards(evaluated[k].circle, slope_geometry)
    /\ last.outcome \in {"evaluated", "few_slices"} => PassesGuards(last.circle, slope_geometry)
    /\ (last.outcome # "none" /\ ~PassesGuards(last.circle, slope_geometry))
           => last.outcome = "guard"

\* a candidate was dropped by a guard after others were evaluated
C20_Witness ==
    /\ Len(evaluated) > 0
    /\ last.outcome = "guard"
    /\ ~PassesGuards(last.circle, slope_geometry)

\* C21: a candidate that passes the guards and whose 15-column discretization
\* has fewer than 5 valid slices is skipped: no solver result is logged for it
\* and min_fs and best_result stay as they were; a candidate a solver was
\* invoked on has at least 5 valid slices
C21_FewSlicesSkipped ==
    /\ [](last.outcome = "evaluated" =>
              Len(slice_geometry(last.circle, slope_geometry, 15)) >= 5)
    /\ [][ (/\ pc = "grid" /\ pc' = "grid"
            /\ PassesGuards(last'.circle, slope_geometry)
            /\ Len(slice_geometry(last'.circle, slope_geometry, 15)) < 5) =>
               /\ last'.outcome = "few_slices"
               /\ cand' = cand + 1
               /\ UNCHANGED <<min_fs, best_result, evaluated>> ]_vars

\* a candidate passed the guards and was dropped for its slice count
C21_Witness ==
    /\ pc = "grid"
    /\ last.outcome = "few_slices"
    /\ PassesGuards(last.circle, slope_geometry)
    /\ Len(slice_geometry(last.circle, slope_geometry, 15)) < 5

\* circle a comes before circle b in the enumeration: x_center outermost,
\* then y_center, then the radius factor
Before(a, b) ==
    \/ a.x_center < b.x_center
    \/ a.x_center = b.x_center /\ a.y_center < b.y_center
    \/ a.x_center = b.x_center /\ a.y_center = b.y_center /\ a.radius < b.radius

\* C22: the candidates are evaluated in enumeration order, the circle kept as
\* best during the grid pass is the first one evaluated whose FS is the
\* minimum, and a later candidate with an FS equal to the minimum replaces
\* nothing
C22_FirstEncounteredKept ==
    /\ [](\A j, k \in 1..Len(evaluated) :
              j < k => Before(evaluated[j].circle, evaluated[k].circle))
    /\ []((pc = "grid" /\ best_result # None) =>
              best_result.critical_circle = evaluated[BestCoarse].circle)
    /\ [][ (/\ pc = "grid" /\ pc' = "grid"
            /\ last'.outcome = "evaluated"
            /\ evaluated'[Len(evaluated')].fs = min_fs) =>
               UNCHANGED <<min_fs, best_result>> ]_vars

\* a later candidate tied with the stored minimum
C22_Witness ==
    /\ pc = "grid"
    /\ last.outcome = "evaluated"
    /\ ~last.accepted
    /\ evaluated[Len(evaluated)].fs = min_fs
    /\ best_result.critical_circle # last.circle

\* floor(sqrt(n))
Root(n) == CHOOSE k \in 0..n : k * k <= n /\ (k + 1) * (k + 1) > n

\* the number of (x_center, y_center, radius factor) combinations
GridSize(n) == Root(n) * Root(n) * 8

\* C23: the grid pass is one pass over the combinations: every step takes the
\* next combination, which comes after the one before it in enumeration
\* order, whatever happened to the one before it; min_fs never grows; and the
\* pass ends only when all combinations have been taken
C23_SinglePass ==
    [][ pc = "grid" =>
           /\ pc' = "grid" =>
                  /\ cand' = cand + 1
                  /\ last.outcome # "none" => Before(last.circle, last'.circle)
                  /\ ~Lt(min_fs, min_fs')
           /\ pc' = "done" => cand = GridSize(n_circles) ]_vars

\* a candidate was rejected and a later one was evaluated
C23_Witness ==
    /\ pc = "grid"
    /\ last.outcome = "evaluated"
    /\ Len(evaluated) < cand
    /\ cand < GridSize(n_circles)

\* C24 as stated: after every pass of bishop_simplified the m_alpha recorded
\* for every slice, which is the divisor that was used, is a number with
\* |m_alpha| >= 0.001
C24_MAlphaAwayFromZero ==
    (bishop # NoCall) =>
        \A k \in 1..Len(bishop.slices_data) :
            /\ bishop.slices_data[k].m_alpha # NaN
            /\ Abs(bishop.slices_data[k].m_alpha) >= MAlphaFloor

\* half the chord the circle cuts at the toe elevation
HalfChord(circle, g) ==
    Sqrt(circle.radius * circle.radius
             - (circle.y_center - g.toe_elevation) * (circle.y_center - g.toe_elevation))

\* the ends of the interval slice_geometry cuts into columns
ColumnsLeft(circle, g) == Max(circle.x_center - HalfChord(circle, g), g.toe_x - 5000)

ColumnsRight(circle, g) ==
    Min(circle.x_center + HalfChord(circle, g),
        g.toe_x + Mul(g.height, g.slope_ratio) + g.crest_width + 5000)

ColumnWidth(circle, g, n) == TDiv(ColumnsRight(circle, g) - ColumnsLeft(circle, g), n)

\* C25: slice_geometry returns at most N records; each has the width
\* (x_right - x_left) / N, spans column index of the N equal columns from
\* x_left, has its midpoint at the centre of the column and an index in
\* 0..N-1; the indices increase strictly along the list
C25_EqualWidthColumns ==
    SliceCalled =>
        /\ Len(call.ret) <= call.n_slices
        /\ \A k \in 1..Len(call.ret) :
               /\ call.ret[k].index \in 0..(call.n_slices - 1)
               /\ call.ret[k].width = ColumnWidth(call.circle, slope_geometry, call.n_slices)
               /\ call.ret[k].x_left = ColumnsLeft(call.circle, slope_geometry)
                                           + call.ret[k].index * call.ret[k].width
               /\ call.ret[k].x_right = call.ret[k].x_left + call.ret[k].width
               /\ Abs(2 * call.ret[k].x_mid - (call.ret[k].x_left + call.ret[k].x_right)) <= 1
        /\ \A j, k \in 1..Len(call.ret) : j < k => call.ret[j].index < call.ret[k].index

\* every column of a chord cut into several columns was kept
C25_Witness ==
    /\ SliceCalled
    /\ call.n_slices > 1
    /\ Len(call.ret) = call.n_slices
    /\ call.ret[1].width > 0

\* C26 as stated: every slice slice_geometry returns has a width above zero,
\* also where the chord at the toe elevation lies left of toe_x - 5 or right
\* of the crest end + 5
C26_PositiveWidth ==
    SliceCalled => \A k \in 1..Len(call.ret) : call.ret[k].width > 0

\* C27: with an empty soil stack every evaluated candidate gets the sentinel
\* FS, the result held is the sentinel with no slice data, and the search
\* returns a result with the sentinel FS instead of None
C27_EmptyStackReturnsSentinel ==
    soil_layers = << >> =>
        /\ \A k \in 1..Len(evaluated) : evaluated[k].fs = SentinelFS
        /\ best_result # None =>
               best_result.fs = SentinelFS /\ best_result.slices_data = << >>
        /\ (pc = "done" /\ Len(evaluated) > 0) =>
               /\ returned # None
               /\ returned.fs = SentinelFS
               /\ returned.slices_data = << >>

\* the search over an empty soil stack has returned the sentinel
C27_Witness ==
    /\ soil_layers = << >>
    /\ pc = "done"
    /\ Len(evaluated) > 1
    /\ returned # None
    /\ returned.fs = SentinelFS

\* the driving sum of the slice set of this call; it does not depend on fs
DrivingOfSlices ==
    bishop_pass(solver.slices, soil_layers, slope_geometry, gwl, solver.circle,
                seismic_coef, BishopInitialFS).sum_driving

\* C28: bishop_simplified with the default tol on a slice set whose driving
\* sum is below 0.001 in absolute value returns the sentinel, converged, after
\* 2 passes when max_iter >= 2, and the sentinel, not converged, when
\* max_iter = 1; with max_iter = 0 it returns the initial guess 1.5, not
\* converged, 0 iterations, no slice data
C28_SentinelAfterTwoPasses ==
    (BishopDone /\ solver.tol = DefaultTol) =>
        /\ solver.max_iter = 0 =>
               /\ result.fs = 1500
               /\ ~result.converged
               /\ result.iterations = 0
               /\ result.slices_data = << >>
        /\ (solver.max_iter = 1 /\ Abs(DrivingOfSlices) < DrivingEps) =>
               /\ result.fs = SentinelFS
               /\ ~result.converged
               /\ result.iterations = 1
        /\ (solver.max_iter >= 2 /\ Abs(DrivingOfSlices) < DrivingEps) =>
               /\ result.fs = SentinelFS
               /\ result.converged
               /\ result.iterations = 2

\* a call with max_iter >= 2 on a slice set without driving force has returned
C28_Witness ==
    /\ BishopDone
    /\ solver.max_iter >= 2
    /\ Abs(DrivingOfSlices) < DrivingEps
    /\ result.iterations = 2

\* C29 as stated: the grid has floor(sqrt(n_circles))^2 * 8 candidates, no
\* more solver results than that are logged, and for every n_circles < 1 the
\* search returns None without evaluating anything
C29_Original ==
    /\ n_circles >= 1 =>
           /\ cand <= GridSize(n_circles)
           /\ Len(evaluated) <= cand
           /\ pc = "done" => cand = GridSize(n_circles)
    /\ n_circles < 1 =>
           /\ pc \in {"grid", "done"}
           /\ evaluated = << >>
           /\ pc = "done" => returned = None

\* C29, amended: the grid has floor(sqrt(n_circles))^2 * 8 candidates for
\* every n_circles >= 0 and no more solver results than that are logged; for
\* n_circles = 0 the grid is empty and the search returns None without
\* evaluating anything; for a negative n_circles the call raises before it
\* enumerates anything and returns nothing
C29_GridSizeBounded ==
    /\ n_circles >= 0 =>
           /\ pc \in {"grid", "done"}
           /\ cand <= GridSize(n_circles)
           /\ Len(evaluated) <= cand
           /\ pc = "done" => cand = GridSize(n_circles)
    /\ n_circles = 0 =>
           /\ evaluated = << >>
           /\ pc = "done" => returned = None
    /\ n_circles < 0 =>
           /\ pc \in {"grid", "raised"}
           /\ cand = 0
           /\ evaluated = << >>
           /\ returned = None

\* a grid of more than one centre has been enumerated to its end
C29_Witness ==
    /\ pc = "done"
    /\ n_circles > 3
    /\ cand = GridSize(n_circles)
    /\ cand > 8
    /\ Len(evaluated) > 0

\* height of the centre of a circle above the toe elevation
CentreHeight(circle, g) == circle.y_center - g.toe_elevation

\* C30: on a geometry with H > 0 every grid centre lies at least 1.2 H above
\* the toe elevation, so a rejection by the guards is always one by the radius
\* guards or by the lowest-point guard; and every circle the search
\* discretizes has radius >= (y_c - toe_elevation) + 0.5, so it passes the
\* reach test R^2 >= (y_c - toe_elevation)^2 of slice_geometry
C30_CentresHighAndCirclesReach ==
    (slope_geometry.height > 0 /\ last.outcome # "none") =>
        /\ 10 * CentreHeight(last.circle, slope_geometry) >= 12 * slope_geometry.height
        /\ 2 * CentreHeight(last.circle, slope_geometry) >= slope_geometry.height
        /\ last.outcome = "guard" =>
               \/ 2 * last.circle.radius < slope_geometry.height
               \/ last.circle.radius > 4 * slope_geometry.height
               \/ last.circle.radius < CentreHeight(last.circle, slope_geometry) + 500
        /\ last.outcome \in {"evaluated", "few_slices"} =>
               /\ last.circle.radius >= CentreHeight(last.circle, slope_geometry) + 500
               /\ last.circle.radius * last.circle.radius
                      >= CentreHeight(last.circle, slope_geometry)
                             * CentreHeight(last.circle, slope_geometry)

\* a circle centred on the lowest row of the grid was discretized and evaluated
C30_Witness ==
    /\ pc = "grid"
    /\ last.outcome = "evaluated"
    /\ 10 * CentreHeight(last.circle, slope_geometry) = 12 * slope_geometry.height
    /\ last.circle.radius >= CentreHeight(last.circle, slope_geometry) + 500

====
